---- MODULE Spec2Model ----
(***************************************************************************)
(* The Sugar Trap dashboard (src/app.py): a Streamlit script that is run   *)
(* top to bottom on every interaction.  The model follows one session:     *)
(* the archive on disk, the st.cache_data store of the loader, the widget  *)
(* state, and the script's module-level variables as the run proceeds.     *)
(*                                                                         *)
(* Numbers.  Nutrient values are whole grams per 100g.  Thresholds are     *)
(* kept in tenths of a gram, so that the linearly interpolated 70th / 30th *)
(* percentiles of whole-gram columns are exact.  Percentages are kept in   *)
(* tenths of a percent, the precision the script rounds them to.           *)
(***************************************************************************)
EXTENDS Integers, Sequences, FiniteSets

VARIABLES
    source,                \* the archive categorized_products.zip on disk
    cache,                 \* st.cache_data store of load_all_data_from_zip: {} or {result}
    reads,                 \* how many times the archive has been opened
    widgets,               \* session widget state (multiselect and the two sliders)
    pc,                    \* position of the current script run
    data,                  \* line 112
    df,                    \* line 115, annotated in place at line 130
    protein_threshold,     \* line 116 / 125
    sugar_threshold,       \* line 117 / 126
    selected_categories,   \* line 141 / 174
    sugar_max,             \* line 148 / 175
    protein_min,           \* line 156 / 176
    df_filtered,           \* line 166 / 168 / 177
    plot_sample,           \* line 231
    gap_data,              \* line 295 / 319
    first_eval             \* what the first completed run handed to the charts

vars == <<source, cache, reads, widgets, pc, data, df, protein_threshold,
          sugar_threshold, selected_categories, sugar_max, protein_min,
          df_filtered, plot_sample, gap_data, first_eval>>

(***************************************************************************)
(* Bounds of the model and constants of the program.                       *)
(***************************************************************************)
MaxRows == 2

NoneNum == -1

QuantileProtein == 70

QuantileSugar == 30

SampleCap == 2000

SliderDefaultSugarMax == 100

SliderDefaultProteinMin == 0

PctInf == 1000000

PctNaN == 1000001

NoneStr == "None"

NullName == "NaN"

RecommendationFallback == "Recommendation not available. Run the analysis cells first."

RecommendationNoZip == "Data files not found."

\* f"Error loading data: {e}": the model writes the artifact that raised for {e}
RecommendationErrorPrefix == "Error loading data: "

\* sorted(df['primary_category'].unique()) orders categories alphabetically
CategoryOrder == <<"bars", "drinks">>

Categories == {CategoryOrder[i] : i \in 1..Len(CategoryOrder)}

Grams == {5, 10}

SugarMaxChoices == {5, SliderDefaultSugarMax}

ProteinMinChoices == {SliderDefaultProteinMin, 10}

\* the six named artifacts, in the order the loader reads them
ArtifactOrder == <<"categorized_products.csv", "thresholds.csv", "top_protein_sources.csv",
                   "category_summary.csv", "brand_leaderboard.csv", "recommendation.txt">>

Artifacts == {ArtifactOrder[i] : i \in 1..Len(ArtifactOrder)}

SecondaryArtifacts == Artifacts \ {"categorized_products.csv"}

ArtifactStates == {"absent", "ok", "malformed"}

(***************************************************************************)
(* Tables.                                                                 *)
(***************************************************************************)
NoneDf == [isNone |-> TRUE, flagcol |-> FALSE, rows |-> << >>]

\* category_summary_df = None; a loaded summary has `columns` data columns beside its
\* index column (read_csv(f, index_col=0)) and its rows in file order
NoneSummary == [isNone |-> TRUE, columns |-> 0, rows |-> << >>]

UnsetData == [df |-> NoneDf, protein_threshold |-> NoneNum, sugar_threshold |-> NoneNum,
              protein_sources_df |-> NoneStr, category_summary_df |-> NoneSummary,
              brand_df |-> NoneStr, recommendation_text |-> NoneStr]

UnsetGap == [precomputed |-> FALSE, rows |-> << >>]

UnsetFirst == [set |-> FALSE, protein_threshold |-> NoneNum, sugar_threshold |-> NoneNum,
               df |-> NoneDf, gap_data |-> UnsetGap]

\* pd.read_csv: the rows of the file under a RangeIndex 0..n-1
read_csv(products) ==
    [isNone |-> FALSE,
     flagcol |-> products.flagcol,
     rows |-> [i \in 1..Len(products.rows) |->
                 [index |-> i - 1,
                  product_name |-> products.rows[i].product_name,
                  primary_category |-> products.rows[i].primary_category,
                  proteins_100g |-> products.rows[i].proteins_100g,
                  sugars_100g |-> products.rows[i].sugars_100g,
                  is_high_protein_low_sugar |-> products.rows[i].is_high_protein_low_sugar]]]

(***************************************************************************)
(* load_all_data_from_zip, lines 29-108.                                   *)
(***************************************************************************)
AllNone(text) ==
    [df |-> NoneDf, protein_threshold |-> NoneNum, sugar_threshold |-> NoneNum,
     protein_sources_df |-> NoneStr, category_summary_df |-> NoneSummary,
     brand_df |-> NoneStr, recommendation_text |-> text]

\* the artifacts that are in the archive but cannot be parsed
Malformed(src) == {i \in 1..Len(ArtifactOrder) : src.st[ArtifactOrder[i]] = "malformed"}

\* the first artifact, in reading order, whose parse raises
FirstMalformed(src) ==
    ArtifactOrder[CHOOSE i \in Malformed(src) : \A j \in Malformed(src) : i <= j]

\* variant: a missing recommendation.txt comes back as None, like the tables
RecommendationTextNoFallback(src) ==
    IF src.st["recommendation.txt"] = "ok" THEN src.recommendation ELSE NoneStr

\* lines 81-86
RecommendationText(src) ==
    IF src.st["recommendation.txt"] = "ok" THEN src.recommendation
    ELSE RecommendationFallback

\* variant: a missing artifact raises like an unparsable one
load_all_or_nothing(src) ==
    IF ~src.exists THEN AllNone(RecommendationNoZip)
    ELSE IF \E a \in Artifacts : src.st[a] # "ok" THEN AllNone(RecommendationErrorPrefix)
    ELSE [df |-> read_csv(src.products),
          protein_threshold |-> src.thresholds.high_protein_threshold,
          sugar_threshold |-> src.thresholds.low_sugar_threshold,
          protein_sources_df |-> src.protein_sources,
          category_summary_df |-> src.category_summary,
          brand_df |-> src.brand,
          recommendation_text |-> src.recommendation]

load_all_data_from_zip(src) ==
    IF ~src.exists THEN AllNone(RecommendationNoZip)
    ELSE IF Malformed(src) # {} THEN AllNone(RecommendationErrorPrefix \o FirstMalformed(src))
    ELSE
      [df |-> IF src.st["categorized_products.csv"] = "ok"
                THEN read_csv(src.products) ELSE NoneDf,
       protein_threshold |-> IF src.st["thresholds.csv"] = "ok"
                THEN src.thresholds.high_protein_threshold ELSE NoneNum,
       sugar_threshold |-> IF src.st["thresholds.csv"] = "ok"
                THEN src.thresholds.low_sugar_threshold ELSE NoneNum,
       protein_sources_df |-> IF src.st["top_protein_sources.csv"] = "ok"
                THEN src.protein_sources ELSE NoneStr,
       category_summary_df |-> IF src.st["category_summary.csv"] = "ok"
                THEN src.category_summary ELSE NoneSummary,
       brand_df |-> IF src.st["brand_leaderboard.csv"] = "ok"
                THEN src.brand ELSE NoneStr,
       recommendation_text |-> RecommendationText(src)]

(***************************************************************************)
(* Threshold fallback, lines 124-126: Series.quantile, linear              *)
(* interpolation between order statistics.  Results are in tenths.         *)
(***************************************************************************)
\* the k-th smallest (k from 1) of a non-empty sequence of numbers
OrderStat(vals, k) ==
    CHOOSE v \in {vals[i] : i \in 1..Len(vals)} :
        /\ Cardinality({i \in 1..Len(vals) : vals[i] < v}) < k
        /\ k <= Cardinality({i \in 1..Len(vals) : vals[i] <= v})

\* vals.quantile(q / 100), times ten: position (n-1)*q/100 between order statistics
Quantile(vals, q) ==
    LET n    == Len(vals)
        pos  == (n - 1) * q
        lo   == pos \div 100
        frac == pos % 100
        a    == OrderStat(vals, lo + 1)
        b    == IF frac = 0 THEN a ELSE OrderStat(vals, lo + 2)
    IN  (1000 * a + 10 * frac * (b - a)) \div 100

Column(rows, name) == [i \in 1..Len(rows) |-> rows[i][name]]

FallbackProtein(d) == Quantile(Column(d.rows, "proteins_100g"), QuantileProtein)

FallbackSugar(d) == Quantile(Column(d.rows, "sugars_100g"), QuantileSugar)

(***************************************************************************)
(* Health flag, lines 129-133.  p and s are thresholds in tenths.          *)
(***************************************************************************)
\* variant: a protein value equal to the threshold does not count
HealthFlagStrict(row, p, s) ==
    /\ 10 * row.proteins_100g > p
    /\ 10 * row.sugars_100g <= s

HealthFlag(row, p, s) ==
    /\ 10 * row.proteins_100g >= p
    /\ 10 * row.sugars_100g <= s

Annotated(d, p, s) ==
    [isNone |-> FALSE,
     flagcol |-> TRUE,
     rows |-> [i \in 1..Len(d.rows) |->
                 [d.rows[i] EXCEPT !.is_high_protein_low_sugar = HealthFlag(d.rows[i], p, s)]]]

(***************************************************************************)
(* Sidebar filter, lines 139-172.                                          *)
(***************************************************************************)
\* sorted(df['primary_category'].unique().tolist())
all_categories(d) ==
    LET present == {d.rows[i].primary_category : i \in 1..Len(d.rows)}
        F[k \in 0..Len(CategoryOrder)] ==
            IF k = 0 THEN << >>
            ELSE IF CategoryOrder[k] \in present THEN Append(F[k - 1], CategoryOrder[k])
                 ELSE F[k - 1]
    IN  F[Len(CategoryOrder)]

Retained(row, sel, smax, pmin) ==
    /\ row.primary_category \in sel
    /\ row.sugars_100g <= smax
    /\ row.proteins_100g >= pmin

\* df[mask]: the rows where the mask is true, in frame order
Mask(rows, sel, smax, pmin) ==
    LET F[k \in 0..Len(rows)] ==
            IF k = 0 THEN << >>
            ELSE IF Retained(rows[k], sel, smax, pmin) THEN Append(F[k - 1], rows[k])
                 ELSE F[k - 1]
    IN  F[Len(rows)]

\* variant: sugars_100g < sugar_max instead of <=
FilterStrictSugar(d, sel, smax, pmin) ==
    IF sel = {} THEN d
    ELSE [d EXCEPT !.rows = Mask(d.rows, sel, smax - 1, pmin)]

Filter(d, sel, smax, pmin) ==
    IF sel = {} THEN d
    ELSE [d EXCEPT !.rows = Mask(d.rows, sel, smax, pmin)]

(***************************************************************************)
(* Scatter sample, line 231: DataFrame.sample(n, random_state=42) takes    *)
(* RandomState(42).permutation(len)[:n], a Fisher-Yates shuffle driven by  *)
(* the MT19937 stream seeded with 42.                                      *)
(***************************************************************************)
\* The first outputs of MT19937 seeded with 42 (1608637542, 3421126067, 4083286876,
\* 787846414, ...), each reduced to its low 16 bits: the shuffle only reads
\* output & mask, and mask < 2^16 for any frame of fewer than 65536 rows.
MT19937Seed42 == <<56422, 15795, 860, 38158, 62570, 54343, 44732, 11284,
                   54886, 6265, 16850, 62678, 37194, 21962, 47191, 60788>>

\* the smallest 2^m - 1 that is >= max
BitMask(max) ==
    LET F[m \in 0..(2 * max + 1)] == IF m >= max THEN m ELSE F[2 * m + 1]
    IN  F[1]

\* a draw from [0, max] by masked rejection, reading the stream from position k:
\* the value drawn and the position after it
RandomInterval(max, k) ==
    LET F[j \in 1..Len(MT19937Seed42)] ==
            LET v == MT19937Seed42[j] % (BitMask(max) + 1)
            IN  IF v <= max THEN [value |-> v, next |-> j + 1] ELSE F[j + 1]
    IN  F[k]

Swap(arr, i, j) == [arr EXCEPT ![i] = arr[j], ![j] = arr[i]]

\* RandomState(42).permutation(n): arange(n) shuffled from the last position down
Permutation(n) ==
    LET F[i \in 0..(n - 1)] ==
            \* the array and the stream position once 0-based positions n-1 .. i+1 are settled
            IF i = n - 1 THEN [arr |-> [k \in 1..n |-> k - 1], pos |-> 1]
            ELSE LET prev == F[i + 1]
                     draw == RandomInterval(i + 1, prev.pos)
                 IN  [arr |-> Swap(prev.arr, i + 2, draw.value + 1), pos |-> draw.next]
    IN  IF n = 0 THEN << >> ELSE F[0].arr

Min(a, b) == IF a <= b THEN a ELSE b

\* variant: the sample is one row short
SampleDropLast(rows, n) ==
    LET idx == Permutation(Len(rows))
    IN  [k \in 1..(n - 1) |-> rows[idx[k] + 1]]

\* df_filtered.sample(n, random_state=42)
Sample(rows, n) ==
    LET idx == Permutation(Len(rows))
    IN  [k \in 1..n |-> rows[idx[k] + 1]]

(***************************************************************************)
(* Category summary computed on the fly, lines 319-324.                    *)
(***************************************************************************)
\* The ratio is computed in IEEE doubles: healthy / total, times 100, and round(1)
\* multiplies by 10, rounds to the nearest integer (halves to even) and divides by 10.
\* A positive double is kept as its 53 significand bits, most significant first, and
\* the exponent of the first bit: the value is the sum of bits[i] * 2^(exp - i + 1).
SignificandBits == 53

Pow2(k) == LET F[i \in 0..k] == IF i = 0 THEN 1 ELSE 2 * F[i - 1] IN F[k]

\* the bits plus one unit in the last place
Increment(bits) ==
    LET n == Len(bits)
        \* the last position holding a 0, or 0 when all bits are 1
        z == IF \E i \in 1..n : bits[i] = 0
             THEN CHOOSE i \in 1..n : bits[i] = 0 /\ \A j \in (i + 1)..n : bits[j] = 1
             ELSE 0
    IN  [i \in 1..n |-> IF z = 0 THEN (IF i = 1 THEN 1 ELSE 0)
                        ELSE IF i < z THEN bits[i] ELSE IF i = z THEN 1 ELSE 0]

\* round to nearest, ties to even: guard is the first dropped bit, sticky tells
\* whether anything nonzero follows it
RoundNearestEven(bits, exp, guard, sticky) ==
    IF guard /\ (sticky \/ bits[Len(bits)] = 1)
    THEN [bits |-> Increment(bits),
          exp |-> IF \A i \in 1..Len(bits) : bits[i] = 1 THEN exp + 1 ELSE exp]
    ELSE [bits |-> bits, exp |-> exp]

\* the bits of a sequence of base-256 digits, most significant first
DigitBits(digits) ==
    [i \in 1..(8 * Len(digits)) |-> (digits[(i + 7) \div 8] \div Pow2(7 - ((i - 1) % 8))) % 2]

\* the base-256 digit held by bits 8j-7 .. 8j
DigitAt(bits, j) ==
    128 * bits[8 * j - 7] + 64 * bits[8 * j - 6] + 32 * bits[8 * j - 5]
      + 16 * bits[8 * j - 4] + 8 * bits[8 * j - 3] + 4 * bits[8 * j - 2]
      + 2 * bits[8 * j - 1] + bits[8 * j]

\* the double nearest to an exact value given by its bits from the leading 1 on (at
\* least 53 of them; inexact says that nonzero bits follow the ones given)
RoundToDouble(full, exp, inexact) ==
    RoundNearestEven(SubSeq(full, 1, SignificandBits), exp,
                     Len(full) > SignificandBits /\ full[SignificandBits + 1] = 1,
                     inexact \/ \E i \in (SignificandBits + 2)..Len(full) : full[i] = 1)

\* the double nearest to h / t, for h > 0 and t > 0
FloatDiv(h, t) ==
    LET up   == IF h >= t THEN CHOOSE k \in 0..h : t * Pow2(k) <= h /\ t * Pow2(k + 1) > h
                ELSE 0
        down == IF h >= t THEN 0
                ELSE CHOOSE k \in 1..t : h * Pow2(k) >= t /\ h * Pow2(k - 1) < t
        num  == h * Pow2(down)
        den  == t * Pow2(up)
        \* long division of num / den, which lies in [1, 2), eight bits at a time: the
        \* first j digits of the fraction and the remainder after them
        D[j \in 0..7] ==
            IF j = 0 THEN [digits |-> << >>, rem |-> num - den]
            ELSE LET prev == D[j - 1]
                     v == 256 * prev.rem
                 IN  [digits |-> Append(prev.digits, v \div den), rem |-> v % den]
        q == D[7]
    IN  RoundToDouble(<<1>> \o DigitBits(q.digits), up - down, q.rem # 0)

\* the double nearest to x * c, for a small positive integer c
FloatMul(x, c) ==
    LET padded == <<0, 0, 0>> \o x.bits
        \* the exact product of the significand and c, from the last digit up: digits
        \* j+1 .. 7 of the product and the carry into digit j
        M[j \in 0..7] ==
            IF j = 7 THEN [low |-> << >>, carry |-> 0]
            ELSE LET prev == M[j + 1]
                     v == DigitAt(padded, j + 1) * c + prev.carry
                 IN  [low |-> <<v % 256>> \o prev.low, carry |-> v \div 256]
        p     == M[0]
        bits  == DigitBits(<<p.carry>> \o p.low)
        first == CHOOSE z \in 1..Len(bits) : bits[z] = 1 /\ \A y \in 1..(z - 1) : bits[y] = 0
        full  == SubSeq(bits, first, Len(bits))
    IN  RoundToDouble(full, x.exp + Len(full) - SignificandBits, FALSE)

\* numpy.rint of a positive double below 2^31: the nearest integer, halves to even
Rint(x) ==
    IF x.exp < -1 THEN 0
    ELSE LET I[i \in 0..(x.exp + 1)] == IF i = 0 THEN 0 ELSE 2 * I[i - 1] + x.bits[i]
             whole  == I[x.exp + 1]
             guard  == x.bits[x.exp + 2] = 1
             sticky == \E i \in (x.exp + 3)..SignificandBits : x.bits[i] = 1
         IN  IF guard /\ (sticky \/ whole % 2 = 1) THEN whole + 1 ELSE whole

\* (healthy / total * 100).round(1), in tenths of a percent; a zero total divides to
\* inf, or to NaN when healthy is zero too
HealthPct(healthy, total) ==
    IF total > 0
    THEN IF healthy = 0 THEN 0
         ELSE Rint(FloatMul(FloatMul(FloatDiv(healthy, total), 100), 10))
    ELSE IF healthy > 0 THEN PctInf ELSE PctNaN

\* one group of df.groupby('primary_category').agg(total=('product_name', 'count'),
\* healthy=('is_high_protein_low_sugar', 'sum')): count skips null names
Group(rows, c) ==
    LET members == {i \in 1..Len(rows) : rows[i].primary_category = c}
        total   == Cardinality({i \in members : rows[i].product_name # NullName})
        healthy == Cardinality({i \in members : rows[i].is_high_protein_low_sugar})
    IN  [primary_category |-> c, total |-> total, healthy |-> healthy,
         health_pct |-> HealthPct(healthy, total)]

\* sort_values(key, ascending=True): insertion of each row in frame order, after
\* the rows that are not above it (inf and NaN last)
SortBy(groups, key) ==
    LET Insert(sorted, g) ==
            LET at == Cardinality({i \in 1..Len(sorted) : sorted[i][key] <= g[key]})
            IN  SubSeq(sorted, 1, at) \o <<g>> \o SubSeq(sorted, at + 1, Len(sorted))
        F[k \in 0..Len(groups)] ==
            IF k = 0 THEN << >> ELSE Insert(F[k - 1], groups[k])
    IN  F[Len(groups)]

\* variant: the summary groups the filtered subset instead of the full table
AggregateFiltered(d) ==
    LET cats == all_categories(df_filtered)
    IN  SortBy([k \in 1..Len(cats) |-> Group(df_filtered.rows, cats[k])], "health_pct")

Aggregate(d) ==
    LET cats == all_categories(d)
    IN  SortBy([k \in 1..Len(cats) |-> Group(d.rows, cats[k])], "health_pct")

\* line 295: reset_index() turns the index into a column and keeps the rows as loaded
ResetIndex(summary) == summary.rows

\* lines 295-297 on a summary of three data columns: the index becomes the category
\* column, the columns are renamed, and the rows are sorted by health_ratio
PrecomputedGap(summary) == SortBy(ResetIndex(summary), "health_ratio")

\* the four names assigned at line 296: the index column and three data columns
GapColumns == 4

(***************************************************************************)
(* The archive on disk.                                                    *)
(***************************************************************************)
RawRows(cats, names, flags) ==
    [product_name : names, primary_category : cats, proteins_100g : Grams,
     sugars_100g : Grams, is_high_protein_low_sugar : flags]

\* the product tables of 1..MaxRows rows over the given columns
Tables(cats, names, flags) ==
    UNION {[1..n -> RawRows(cats, names, flags)] : n \in 1..MaxRows}

SummaryRow(c, total, healthy, ratio) ==
    [category |-> c, total_products |-> total, healthy_products |-> healthy,
     health_ratio |-> ratio]

\* category_summary.csv as the analysis wrote it, rows in category order
SummaryV1 == [isNone |-> FALSE, columns |-> 3,
              rows |-> <<SummaryRow("bars", 10, 4, 400), SummaryRow("drinks", 5, 1, 200)>>]

SummaryV2 == [isNone |-> FALSE, columns |-> 3,
              rows |-> <<SummaryRow("drinks", 1, 0, 0)>>]

\* a category_summary.csv that parses but lacks the health_ratio column
SummaryTwoColumns ==
    [isNone |-> FALSE, columns |-> 2,
     rows |-> <<[category |-> "bars", total_products |-> 10, healthy_products |-> 4],
                [category |-> "drinks", total_products |-> 5, healthy_products |-> 1]>>]

Archive(st, products, version) ==
    [exists |-> TRUE, st |-> st, products |-> products,
     thresholds |-> IF version = 1
                      THEN [high_protein_threshold |-> 100, low_sugar_threshold |-> 50]
                      ELSE [high_protein_threshold |-> 50, low_sugar_threshold |-> 100],
     protein_sources |-> IF version = 1 THEN "sources#1" ELSE "sources#2",
     category_summary |-> IF version = 1 THEN SummaryV1 ELSE SummaryV2,
     brand |-> IF version = 1 THEN "brands#1" ELSE "brands#2",
     recommendation |-> IF version = 1 THEN "Launch a bar." ELSE "Launch a drink."]

AllOk == [a \in Artifacts |-> "ok"]

Row(name, cat, p, s) ==
    [product_name |-> name, primary_category |-> cat, proteins_100g |-> p,
     sugars_100g |-> s, is_high_protein_low_sugar |-> FALSE]

ProductsV1 == [flagcol |-> FALSE,
               rows |-> <<Row("snack", "bars", 10, 5), Row("snack", "drinks", 5, 10)>>]

ProductsV2 == [flagcol |-> FALSE, rows |-> <<Row("snack", "drinks", 10, 10)>>]

\* a later delivery of the archive, and the archive removed
UpdatedArchive == Archive(AllOk, ProductsV2, 2)

MissingArchive == [Archive([a \in Artifacts |-> "absent"], ProductsV2, 2) EXCEPT !.exists = FALSE]

(***************************************************************************)
(* One script run, top to bottom.                                          *)
(***************************************************************************)
ScriptUnset ==
    /\ data' = UnsetData
    /\ df' = NoneDf
    /\ protein_threshold' = NoneNum
    /\ sugar_threshold' = NoneNum
    /\ selected_categories' = {}
    /\ sugar_max' = SliderDefaultSugarMax
    /\ protein_min' = SliderDefaultProteinMin
    /\ df_filtered' = NoneDf
    /\ plot_sample' = << >>
    /\ gap_data' = UnsetGap

InitSession ==
    /\ cache = {}
    /\ reads = 0
    /\ widgets = [touched |-> FALSE, sel |-> {}, sugar_max |-> SliderDefaultSugarMax,
                  protein_min |-> SliderDefaultProteinMin]
    /\ pc = "load"
    /\ data = UnsetData
    /\ df = NoneDf
    /\ protein_threshold = NoneNum
    /\ sugar_threshold = NoneNum
    /\ selected_categories = {}
    /\ sugar_max = SliderDefaultSugarMax
    /\ protein_min = SliderDefaultProteinMin
    /\ df_filtered = NoneDf
    /\ plot_sample = << >>
    /\ gap_data = UnsetGap
    /\ first_eval = UnsetFirst

\* @st.cache_data on a function without arguments: the body runs when the store is
\* empty, and every later call returns the stored result
\* variant: no memoization, every call runs the body
CachedLoadNoMemo ==
    [result |-> load_all_data_from_zip(source), read |-> TRUE]

CachedLoad ==
    IF cache = {} THEN [result |-> load_all_data_from_zip(source), read |-> TRUE]
    ELSE [result |-> CHOOSE d \in cache : TRUE, read |-> FALSE]

\* lines 112-121
Load ==
    /\ pc = "load"
    /\ LET call == CachedLoad
       IN  /\ cache' = {call.result}
           /\ reads' = IF call.read THEN reads + 1 ELSE reads
           /\ data' = call.result
           /\ df' = call.result.df
           /\ protein_threshold' = call.result.protein_threshold
           /\ sugar_threshold' = call.result.sugar_threshold
    /\ pc' = "resolve"
    /\ UNCHANGED <<source, widgets, selected_categories, sugar_max, protein_min,
                   df_filtered, plot_sample, gap_data, first_eval>>

\* variant: the percentiles are computed even when thresholds.csv was loaded
ResolvedAlwaysFallback ==
    IF ~df.isNone
    THEN [protein |-> FallbackProtein(df), sugar |-> FallbackSugar(df)]
    ELSE [protein |-> protein_threshold, sugar |-> sugar_threshold]

\* lines 124-126
Resolved ==
    IF protein_threshold = NoneNum /\ ~df.isNone
    THEN [protein |-> FallbackProtein(df), sugar |-> FallbackSugar(df)]
    ELSE [protein |-> protein_threshold, sugar |-> sugar_threshold]

Resolve ==
    /\ pc = "resolve"
    /\ protein_threshold' = Resolved.protein
    /\ sugar_threshold' = Resolved.sugar
    /\ pc' = "annotate"
    /\ UNCHANGED <<source, cache, reads, widgets, data, df, selected_categories, sugar_max,
                   protein_min, df_filtered, plot_sample, gap_data, first_eval>>

\* lines 129-133
Annotate ==
    /\ pc = "annotate"
    /\ df' = IF ~df.isNone /\ ~df.flagcol
               THEN Annotated(df, protein_threshold, sugar_threshold) ELSE df
    \* df is data['df'] itself: the column appears there too (the store keeps its own copy)
    /\ data' = [data EXCEPT !.df = df']
    /\ pc' = "filter"
    /\ UNCHANGED <<source, cache, reads, widgets, protein_threshold, sugar_threshold,
                   selected_categories, sugar_max, protein_min, df_filtered, plot_sample,
                   gap_data, first_eval>>

SeqToSet(q) == {q[i] : i \in 1..Len(q)}

\* lines 139-187: the sidebar widgets, the filter, and the stop when nothing was loaded
FilterStep ==
    /\ pc = "filter"
    /\ IF ~df.isNone
       THEN LET sel == IF widgets.touched THEN widgets.sel ELSE SeqToSet(all_categories(df))
            IN  /\ selected_categories' = sel
                /\ sugar_max' = widgets.sugar_max
                /\ protein_min' = widgets.protein_min
                /\ df_filtered' = Filter(df, sel, widgets.sugar_max, widgets.protein_min)
                /\ pc' = "sample"
       ELSE /\ selected_categories' = {}
            /\ sugar_max' = SliderDefaultSugarMax
            /\ protein_min' = SliderDefaultProteinMin
            /\ df_filtered' = NoneDf
            /\ pc' = "stopped"
    /\ UNCHANGED <<source, cache, reads, widgets, data, df, protein_threshold,
                   sugar_threshold, plot_sample, gap_data, first_eval>>

\* lines 227-231
SampleStep ==
    /\ pc = "sample"
    /\ plot_sample' = IF Len(df_filtered.rows) = 0 THEN plot_sample
                      ELSE Sample(df_filtered.rows, Min(SampleCap, Len(df_filtered.rows)))
    /\ pc' = "gap"
    /\ UNCHANGED <<source, cache, reads, widgets, data, df, protein_threshold,
                   sugar_threshold, selected_categories, sugar_max, protein_min,
                   df_filtered, gap_data, first_eval>>

\* lines 294-324; the run ends after the remaining charts, which assign nothing read
\* here.  Renaming the columns of a summary that does not have four of them raises
\* (line 296) and ends the run there, with gap_data bound to the frame of line 295.
GapStep ==
    /\ pc = "gap"
    /\ IF ~data.category_summary_df.isNone /\ data.category_summary_df.columns + 1 # GapColumns
       THEN /\ gap_data' = [precomputed |-> TRUE,
                             rows |-> ResetIndex(data.category_summary_df)]
            /\ pc' = "crashed"
            /\ UNCHANGED first_eval
       ELSE /\ gap_data' = IF ~data.category_summary_df.isNone
                             THEN [precomputed |-> TRUE,
                                   rows |-> PrecomputedGap(data.category_summary_df)]
                             ELSE [precomputed |-> FALSE, rows |-> Aggregate(df)]
            /\ first_eval' = IF first_eval.set THEN first_eval
                             ELSE [set |-> TRUE, protein_threshold |-> protein_threshold,
                                   sugar_threshold |-> sugar_threshold, df |-> df,
                                   gap_data |-> gap_data']
            /\ pc' = "done"
    /\ UNCHANGED <<source, cache, reads, widgets, data, df, protein_threshold,
                   sugar_threshold, selected_categories, sugar_max, protein_min,
                   df_filtered, plot_sample>>

\* the analyst changes a sidebar widget: Streamlit stores the value and reruns the script
Interact ==
    /\ pc \in {"done", "crashed"}
    /\ \E sel \in SUBSET SeqToSet(all_categories(df)), smax \in SugarMaxChoices,
          pmin \in ProteinMinChoices :
          /\ <<sel, smax, pmin>> # <<selected_categories, sugar_max, protein_min>>
          /\ widgets' = [touched |-> TRUE, sel |-> sel, sugar_max |-> smax,
                         protein_min |-> pmin]
    /\ pc' = "load"
    /\ ScriptUnset
    /\ UNCHANGED <<source, cache, reads, first_eval>>

\* a rerun without a widget change (the app's rerun command), also after st.stop()
\* or after a run that ended with an exception
Rerun ==
    /\ pc \in {"done", "stopped", "crashed"}
    /\ pc' = "load"
    /\ ScriptUnset
    /\ UNCHANGED <<source, cache, reads, widgets, first_eval>>

\* between runs the archive on disk is replaced or removed
SourceChange ==
    /\ pc \in {"done", "stopped", "crashed"}
    /\ \E s \in {UpdatedArchive, MissingArchive} : s # source /\ source' = s
    /\ UNCHANGED <<cache, reads, widgets, pc, data, df, protein_threshold, sugar_threshold,
                   selected_categories, sugar_max, protein_min, df_filtered, plot_sample,
                   gap_data, first_eval>>

Next ==
    \/ Load
    \/ Resolve
    \/ Annotate
    \/ FilterStep
    \/ SampleStep
    \/ GapStep
    \/ Interact
    \/ Rerun
    \/ SourceChange

(***************************************************************************)
(* Specifications: the same session over different families of archives.   *)
(***************************************************************************)
\* every combination of present / absent / malformed artifacts, or no archive at all
InitLoader ==
    /\ source \in {Archive(st, ProductsV1, 1) : st \in [Artifacts -> ArtifactStates]}
                    \cup {[Archive(st, ProductsV1, 1) EXCEPT !.category_summary = SummaryTwoColumns] :
                             st \in {f \in [Artifacts -> ArtifactStates] :
                                        f["category_summary.csv"] = "ok"}}
                    \cup {MissingArchive}
    /\ InitSession

\* complete archives, with or without thresholds.csv, without category_summary.csv
EngineSt(thr) ==
    [AllOk EXCEPT !["thresholds.csv"] = thr, !["category_summary.csv"] = "absent"]

InitEngine ==
    /\ source \in {Archive(EngineSt(thr), [flagcol |-> FALSE, rows |-> t], 1) :
                     thr \in {"absent", "ok"}, t \in Tables(Categories, {"snack"}, {FALSE})}
    /\ InitSession

\* product tables that may already carry an is_high_protein_low_sugar column
InitFlag ==
    /\ source \in {Archive(EngineSt(thr), [flagcol |-> FALSE, rows |-> t], 1) :
                     thr \in {"absent", "ok"}, t \in Tables({"bars"}, {"snack"}, {FALSE})}
               \cup {Archive(EngineSt(thr), [flagcol |-> TRUE, rows |-> t], 1) :
                     thr \in {"absent", "ok"}, t \in Tables({"bars"}, {"snack"}, BOOLEAN)}
    /\ InitSession

\* product tables in which product_name may be null
InitNames ==
    /\ source \in {Archive(EngineSt("ok"), [flagcol |-> FALSE, rows |-> t], 1) :
                     t \in Tables(Categories, {"snack", NullName}, {FALSE})}
    /\ InitSession

Spec == InitEngine /\ [][Next]_vars

SpecLoader == InitLoader /\ [][Next]_vars

SpecFlag == InitFlag /\ [][Next]_vars

SpecNames == InitNames /\ [][Next]_vars

(***************************************************************************)
(* Properties.                                                             *)
(***************************************************************************)
\* the result the loader's store holds
Cached == CHOOSE d \in cache : TRUE

AfterResolve == pc \in {"annotate", "filter", "sample", "gap", "done", "crashed"}

AfterAnnotate == pc \in {"filter", "sample", "gap", "done", "crashed"}

AfterFilter == pc \in {"sample", "gap", "done", "crashed"}

AfterSample == pc \in {"gap", "done", "crashed"}

\* the flag a row must carry under the resolved threshold pair
FlagMatchesThresholds(row) ==
    row.is_high_protein_low_sugar <=>
        (10 * row.proteins_100g >= protein_threshold /\ 10 * row.sugars_100g <= sugar_threshold)

\* C1 as stated: after annotation every row's is_high_protein_low_sugar is true iff
\* proteins_100g >= p and sugars_100g <= s, whatever columns the loaded table had.
C1_AsStated ==
    (AfterAnnotate /\ ~df.isNone) =>
        \A i \in 1..Len(df.rows) : FlagMatchesThresholds(df.rows[i])

\* C1 amended: when the loaded table has no is_high_protein_low_sugar column, every
\* row's flag is true iff proteins_100g >= p and sugars_100g <= s (equality included);
\* when the loaded table already has the column, it is kept as loaded.
C1_FlagInvariant ==
    (AfterAnnotate /\ ~df.isNone) =>
        /\ df.flagcol
        /\ Len(df.rows) = Len(Cached.df.rows)
        /\ IF ~Cached.df.flagcol
           THEN \A i \in 1..Len(df.rows) : FlagMatchesThresholds(df.rows[i])
           ELSE df = Cached.df

\* a computed flag that is true on a row sitting exactly on both thresholds
C1_Witness ==
    /\ AfterAnnotate /\ ~df.isNone /\ ~Cached.df.flagcol
    /\ \E i \in 1..Len(df.rows) :
          /\ 10 * df.rows[i].proteins_100g = protein_threshold
          /\ 10 * df.rows[i].sugars_100g = sugar_threshold
          /\ df.rows[i].is_high_protein_low_sugar
    /\ \E i \in 1..Len(df.rows) : ~df.rows[i].is_high_protein_low_sugar

\* the step in which the loader's body runs
FirstLoad == cache = {} /\ cache' # {}

\* each secondary artifact comes back with its content when it is there and parses,
\* and as its own fallback otherwise
SecondaryIndependent(src, d) ==
    /\ d.protein_threshold = IF src.st["thresholds.csv"] = "ok"
                               THEN src.thresholds.high_protein_threshold ELSE NoneNum
    /\ d.sugar_threshold = IF src.st["thresholds.csv"] = "ok"
                             THEN src.thresholds.low_sugar_threshold ELSE NoneNum
    /\ d.protein_sources_df = IF src.st["top_protein_sources.csv"] = "ok"
                                THEN src.protein_sources ELSE NoneStr
    /\ d.category_summary_df = IF src.st["category_summary.csv"] = "ok"
                                 THEN src.category_summary ELSE NoneSummary
    /\ d.brand_df = IF src.st["brand_leaderboard.csv"] = "ok" THEN src.brand ELSE NoneStr
    /\ d.recommendation_text = IF src.st["recommendation.txt"] = "ok"
                                 THEN src.recommendation ELSE RecommendationFallback

EverythingAbsent(d) ==
    /\ d.df.isNone
    /\ d.protein_threshold = NoneNum /\ d.sugar_threshold = NoneNum
    /\ d.protein_sources_df = NoneStr /\ d.category_summary_df = NoneSummary
    /\ d.brand_df = NoneStr

\* C2 as stated: with the product records present and parsable, the load returns the
\* product table and each secondary artifact independently, for every combination of
\* present / absent / malformed secondary artifacts.
C2_AsStated ==
    [][(FirstLoad /\ source.exists /\ source.st["categorized_products.csv"] = "ok") =>
          /\ ~data'.df.isNone
          /\ SecondaryIndependent(source, data')]_vars

\* C2 amended: for every combination of present / absent artifacts in an archive
\* whose present artifacts all parse, each artifact comes back independently (its
\* content, or its own fallback when absent); one malformed artifact, secondary or
\* not, fails the whole load: no product table and every artifact absent.
C2_PerArtifact ==
    [][(FirstLoad /\ source.exists) =>
          IF \A a \in Artifacts : source.st[a] # "malformed"
          THEN /\ data'.df.isNone <=> source.st["categorized_products.csv"] = "absent"
               /\ ~data'.df.isNone => data'.df = read_csv(source.products)
               /\ SecondaryIndependent(source, data')
          ELSE EverythingAbsent(data')]_vars

\* a first load that returned the product table and the brand table although the
\* thresholds and the recommendation were missing
C2_Witness ==
    /\ pc = "resolve" /\ reads = 1 /\ source.exists
    /\ source.st["thresholds.csv"] = "absent" /\ source.st["recommendation.txt"] = "absent"
    /\ source.st["brand_leaderboard.csv"] = "ok"
    /\ \A a \in Artifacts : source.st[a] # "malformed"
    /\ ~data.df.isNone /\ data.brand_df = source.brand
    /\ data.protein_threshold = NoneNum

RecommendationMissing(src) == ~src.exists \/ src.st["recommendation.txt"] = "absent"

\* C3 as stated: whenever the recommendation artifact is missing, whatever the state
\* of the other artifacts or of the archive, the loader returns the literal fallback.
C3_AsStated ==
    [][(FirstLoad /\ RecommendationMissing(source)) =>
          data'.recommendation_text = RecommendationFallback]_vars

\* C3 amended: when the archive opens, every artifact in it parses and
\* recommendation.txt is missing, the loader returns exactly the literal fallback;
\* when the archive itself is missing it returns "Data files not found.", and when an
\* artifact fails to parse it returns "Error loading data: " followed by the error.
C3_RecommendationFallback ==
    [][FirstLoad =>
          /\ (source.exists /\ source.st["recommendation.txt"] = "absent"
                /\ \A a \in Artifacts : source.st[a] # "malformed")
               => data'.recommendation_text = RecommendationFallback
          /\ ~source.exists => data'.recommendation_text = RecommendationNoZip
          /\ (source.exists /\ \E a \in Artifacts : source.st[a] = "malformed")
               => \E a \in Artifacts :
                     data'.recommendation_text = RecommendationErrorPrefix \o a]_vars

\* a first load of an archive without recommendation.txt and without thresholds.csv
\* that returned the literal fallback
C3_Witness ==
    /\ pc = "resolve" /\ reads = 1 /\ source.exists
    /\ source.st["recommendation.txt"] = "absent"
    /\ source.st["thresholds.csv"] = "absent"
    /\ \A a \in Artifacts : source.st[a] # "malformed"
    /\ data.recommendation_text = RecommendationFallback

\* C4 as stated: with an empty selection the filtered subset equals the subset
\* obtained with all categories selected and the same sugar_max and protein_min.
C4_AsStated ==
    (AfterFilter /\ selected_categories = {}) =>
        df_filtered = Filter(df, SeqToSet(all_categories(df)), sugar_max, protein_min)

\* the positions of the full table whose rows pass the three predicates
Passing ==
    {i \in 1..Len(df.rows) :
        /\ df.rows[i].primary_category \in selected_categories
        /\ df.rows[i].sugars_100g <= sugar_max
        /\ df.rows[i].proteins_100g >= protein_min}

\* C5: with a non-empty selection the filtered subset is exactly the rows of the full
\* table with primary_category selected, sugars_100g <= sugar_max and
\* proteins_100g >= protein_min, in their original relative order.
C5_FilterExact ==
    (AfterFilter /\ selected_categories # {}) =>
        /\ Len(df_filtered.rows) = Cardinality(Passing)
        /\ \A k \in 1..Len(df_filtered.rows) :
              \E i \in Passing :
                 /\ Cardinality({j \in Passing : j <= i}) = k
                 /\ df_filtered.rows[k] = df.rows[i]

\* a non-empty selection that kept the second row and dropped the first
C5_Witness ==
    /\ AfterFilter /\ selected_categories # {}
    /\ Len(df.rows) = 2 /\ Len(df_filtered.rows) = 1
    /\ df_filtered.rows[1] = df.rows[2]
    /\ df.rows[1].primary_category \in selected_categories

\* C6 as stated: a filtered subset of at most 2000 rows is sampled unchanged, the
\* same rows in the same order.
C6_AsStated ==
    (AfterSample /\ Len(df_filtered.rows) <= SampleCap) =>
        plot_sample = df_filtered.rows

\* C6 amended: a filtered subset of 1 to 2000 rows is sampled to exactly its own
\* rows, each once (none dropped, none repeated), in the order of the seeded shuffle,
\* which need not be the subset's order; of an empty subset no sample is drawn.
C6_SamplePermutes ==
    (AfterSample /\ Len(df_filtered.rows) <= SampleCap) =>
        /\ Len(plot_sample) = Len(df_filtered.rows)
        /\ \A k \in 1..Len(plot_sample) :
              \E i \in 1..Len(df_filtered.rows) : plot_sample[k] = df_filtered.rows[i]
        /\ \A k, l \in 1..Len(plot_sample) :
              plot_sample[k].index = plot_sample[l].index => k = l

\* a two-row subset whose sample holds the same rows in the other order
C6_Witness ==
    /\ AfterSample /\ Len(df_filtered.rows) = 2
    /\ plot_sample = <<df_filtered.rows[2], df_filtered.rows[1]>>

\* C7 as stated: in the recomputed summary each category's total is its number of
\* rows in the full table, healthy the number of those flagged, health_ratio is
\* healthy / total * 100; so healthy <= total and 0 <= health_ratio <= 100.
C7_AsStated ==
    (pc = "done" /\ ~gap_data.precomputed) =>
        /\ {gap_data.rows[k].primary_category : k \in 1..Len(gap_data.rows)}
              = {df.rows[i].primary_category : i \in 1..Len(df.rows)}
        /\ \A k \in 1..Len(gap_data.rows) :
              LET g == gap_data.rows[k]
                  members == {i \in 1..Len(df.rows) :
                                 df.rows[i].primary_category = g.primary_category}
              IN  /\ g.total = Cardinality(members)
                  /\ g.healthy = Cardinality({i \in members :
                                                 df.rows[i].is_high_protein_low_sugar})
                  /\ g.health_pct * g.total = g.healthy * 1000
                  /\ g.healthy <= g.total
                  /\ 0 <= g.health_pct /\ g.health_pct <= 1000

\* C8: when thresholds.csv was loaded the resolved pair is the precomputed pair, the
\* percentiles of the full table are used only when it was not, and the pair is
\* resolved before the flag is computed.
C8_ThresholdPrecedence ==
    /\ (AfterResolve /\ ~df.isNone) =>
          /\ protein_threshold # NoneNum /\ sugar_threshold # NoneNum
          /\ IF Cached.protein_threshold # NoneNum
             THEN /\ protein_threshold = Cached.protein_threshold
                  /\ sugar_threshold = Cached.sugar_threshold
             ELSE /\ protein_threshold = FallbackProtein(Cached.df)
                  /\ sugar_threshold = FallbackSugar(Cached.df)
    /\ (pc \in {"resolve", "annotate"} /\ ~df.isNone) => df = Cached.df

\* the precomputed pair taken although the percentiles of the table differ from it
C8_Witness ==
    /\ pc = "annotate" /\ ~df.isNone
    /\ Cached.protein_threshold # NoneNum
    /\ protein_threshold = Cached.protein_threshold
    /\ sugar_threshold = Cached.sugar_threshold
    /\ FallbackProtein(df) # protein_threshold
    /\ FallbackSugar(df) # sugar_threshold

\* C9: over any sequence of filter changes, each rerunning the script, the resolved
\* thresholds, every row's flag and the category summary are those of the first run;
\* only the filtered subset and what is derived from it change.
C9_LoadedDataOnly ==
    first_eval.set =>
        /\ AfterResolve => /\ protein_threshold = first_eval.protein_threshold
                           /\ sugar_threshold = first_eval.sugar_threshold
        /\ AfterAnnotate => df = first_eval.df
        /\ pc = "done" => gap_data = first_eval.gap_data

\* a later run, under changed filters that dropped a row, with the first run's summary
C9_Witness ==
    /\ pc = "done" /\ first_eval.set /\ widgets.touched
    /\ Len(df_filtered.rows) < Len(df.rows)
    /\ gap_data = first_eval.gap_data
    /\ Len(gap_data.rows) = 2

\* the step that executes data = load_all_data_from_zip()
LoadCall == pc = "load" /\ pc' = "resolve"

\* C10 as stated: the loader is memoized by the source's content, so a call after
\* the archive has changed returns the result of loading the new content.
C10_AsStated ==
    [][LoadCall => data' = load_all_data_from_zip(source)]_vars

\* C10 amended: the loader is memoized by the function alone (it takes no argument):
\* the archive is read at most once, by the first call; every later call returns the
\* first result without reading, also after the archive has changed or been removed.
C10_MemoizedOnce ==
    [][/\ reads' <= 1
       /\ LoadCall =>
             IF cache = {}
             THEN /\ reads' = reads + 1
                  /\ data' = load_all_data_from_zip(source)
                  /\ cache' = {data'}
             ELSE /\ reads' = reads
                  /\ data' \in cache
                  /\ cache' = cache]_vars

\* a call made after the archive was replaced that returned the first result
C10_Witness ==
    /\ pc = "resolve" /\ reads = 1
    /\ source = UpdatedArchive
    /\ data \in cache
    /\ data # load_all_data_from_zip(source)

====
